---- MODULE Spec2Model ----
(***************************************************************************)
(* AuroraDB Python bindings: the vector-collection facade                  *)
(* (auroradb/vector.py), the basic client and its collection handle        *)
(* (auroradb/client.py).  Every public operation is one action; the        *)
(* Statement Executor (AuroraDB.sql over HTTP) is the environment: the     *)
(* response to each call is chosen by the action's inputs.                 *)
(*                                                                         *)
(* SQL text is a sequence of chunks.  Template text of an f-string is one  *)
(* chunk, every character of a caller-supplied string is a chunk of its    *)
(* own, and every single quote of a template is a chunk of its own, so     *)
(* that the text can be tokenised the way a SQL lexer would.               *)
(***************************************************************************)
EXTENDS Integers, Sequences, FiniteSets, TLC

\* ---- bounds -------------------------------------------------------------
MaxDim == 2
MaxVectors == 3
MaxBatch == 2
MaxStrLen == 1
MaxIds == 2
MaxFilter == 2
MaxRows == 2
MaxNativeCalls == 2
MaxInits == 3
MaxApps == 2
MaxRoutes == 1

\* ---- program constants --------------------------------------------------
DefaultDimension == 384

\* ---- input domains ------------------------------------------------------
Names == {"docs"}
Dimensions == 1..MaxDim
Metrics == {"cosine", "euclidean", "dot"}
ErrorMessages == {"already exists", "connection refused"}
Quote == "'"
Chars == {"a", Quote}

VARIABLES coll, schemaSent, tables, op

\* the driver (aurora/driver.py): AuroraClient._closed, the AuroraTransaction
\* the caller holds, how often the native close, commit and rollback were
\* invoked, and the caller's last call
VARIABLES closed, txn, native, dcall

facadeVars == <<coll, schemaSent, tables, op>>
VARIABLES cyclone_handle, lib, apps, ccall
driverVars == <<closed, txn, native, dcall>>
cycloneVars == <<cyclone_handle, lib, apps, ccall>>
vars == <<coll, schemaSent, tables, op, closed, txn, native, dcall,
          cyclone_handle, lib, apps, ccall>>

\* ---- values -------------------------------------------------------------
NoError == [type |-> "", message |-> <<>>]
NoHandle == [kind |-> "none", name |-> "", dimension |-> 0,
             distance_metric |-> "", metadata_config |-> {}]
NoParameters == [bound |-> FALSE, vectors |-> <<>>, ids |-> <<>>, metadata |-> <<>>]

\* payload of AuroraDB.sql: {"query": query, "parameters": parameters or {}}
Payload(query, parameters) == [query |-> query, parameters |-> parameters]

\* a response of the REST endpoint as AuroraDB.sql reads it
OkResponse(rows) == [success |-> TRUE, error |-> "", rows |-> rows]
ErrResponse(msg) == [success |-> FALSE, error |-> msg, rows |-> <<>>]

\* what the executor does during one operation that plans n calls: it
\* answers every call (at = 0) or fails the at-th one with message err
NoFault == [at |-> 0, err |-> ""]
Faults(n) == {NoFault} \cup [at : 1..n, err : ErrorMessages]

ResponseAt(k, fault, rows) ==
    IF k = fault.at THEN ErrResponse(fault.err) ELSE OkResponse(rows)

\* AuroraDB.sql: raise AuroraDBError(response["error"]) unless success
SqlRaises(response) == ~response.success
SqlError(response) == [type |-> "AuroraDBError", message |-> <<response.error>>]

\* ---- Python helpers -----------------------------------------------------
Min(a, b) == IF a < b THEN a ELSE b

\* s[i:j] of a Python list (0-based, clipped to the list)
Slice(s, i, j) == SubSeq(s, i + 1, Min(j, Len(s)))

\* a range that includes its stop value
RECURSIVE RangeFromInclusive(_, _, _)
RangeFromInclusive(i, n, step) ==
    IF i > n THEN <<>> ELSE <<i>> \o RangeFromInclusive(i + step, n, step)

\* list(range(i, n, step)) for step >= 1
RECURSIVE RangeFrom(_, _, _)
RangeFrom(i, n, step) ==
    IF i >= n THEN <<>> ELSE <<i>> \o RangeFrom(i + step, n, step)

\* sep.join(parts) on chunk sequences
RECURSIVE Join(_, _)
Join(parts, sep) ==
    IF Len(parts) = 0 THEN <<>>
    ELSE IF Len(parts) = 1 THEN parts[1]
    ELSE parts[1] \o sep \o Join(Tail(parts), sep)

\* a list printed from its last component to its first
ListReprReversed(v) ==
    <<"[">>
    \o Join([i \in 1..Len(v) |-> <<ToString(v[Len(v) + 1 - i])>>], <<", ">>)
    \o <<"]">>

\* str() of a Python list of numbers, as in f"ARRAY{vector}"
ListRepr(v) ==
    <<"[">> \o Join([i \in 1..Len(v) |-> <<ToString(v[i])>>], <<", ">>) \o <<"]">>

ArrayLiteral(v) == <<"ARRAY">> \o ListRepr(v)

\* f"'{s}'": the string between two quotes, nothing done to its characters
Quoted(s) == <<Quote>> \o s \o <<Quote>>

\* ---- statement execution -----------------------------------------------
\* the calls a straight-line sequence of client.sql(...) makes: an
\* exception leaves the sequence, so nothing after the failing call is sent
SentUntilFailure(stmts, fault) ==
    IF fault.at >= 1 /\ fault.at <= Len(stmts)
    THEN SubSeq(stmts, 1, fault.at)
    ELSE stmts

\* whether the last call that was sent raised out of client.sql
LastCallRaised(calls, fault) ==
    /\ Len(calls) >= 1
    /\ SqlRaises(ResponseAt(Len(calls), fault, <<>>))

\* the outcome of one public operation
Outcome(calls, raised, error, value) ==
    [calls |-> calls, raised |-> raised, error |-> error, value |-> value]

NoValue == [status |-> "none"]

\* no COUNT(*) answer of the backend is known to hold still
NotCounted == -1

\* no call in progress: the caller holds no result
Idle == [name |-> "", handle |-> "none", args |-> [none |-> TRUE],
         fault |-> NoFault,
         calls |-> <<>>, raised |-> FALSE, error |-> NoError,
         value |-> NoValue]

OpRecord(name, args, fault, r) ==
    [name |-> name, handle |-> coll.kind, args |-> args, fault |-> fault,
     calls |-> r.calls, raised |-> r.raised, error |-> r.error,
     value |-> r.value]

\* ---- VectorCollection.__init__ / _ensure_collection_exists --------------
CreateTableQuery(name, dimension) ==
    <<"CREATE TABLE IF NOT EXISTS ", name, " (id TEXT PRIMARY KEY, vector ",
      "VECTOR(", ToString(dimension), ")",
      ", metadata JSONB, created_at TIMESTAMP DEFAULT CURRENT_TIMESTAMP)">>

IndexQueries(name) ==
    << <<"CREATE INDEX IF NOT EXISTS idx_", name, "_vector ON ", name,
         " USING ivfflat (vector vector_cosine_ops)">>,
       <<"CREATE INDEX IF NOT EXISTS idx_", name, "_metadata ON ", name,
         " USING gin (metadata)">> >>

SchemaStatements(name, dimension) ==
    <<Payload(CreateTableQuery(name, dimension), NoParameters)>>
    \o [i \in 1..Len(IndexQueries(name)) |->
          Payload(IndexQueries(name)[i], NoParameters)]

\* schema creation without the try/except: client.sql's exception leaves
\* the constructor
EnsureCollectionExistsNoExcept(name, dimension, fault) ==
    LET calls == SentUntilFailure(SchemaStatements(name, dimension), fault) IN
    IF LastCallRaised(calls, fault)
    THEN Outcome(calls, TRUE, SqlError(ResponseAt(Len(calls), fault, <<>>)), NoValue)
    ELSE Outcome(calls, FALSE, NoError, [status |-> "constructed"])

\* schema creation that goes on to the next statement after a failure
EnsureCollectionExistsSendsAll(name, dimension, fault) ==
    Outcome(SchemaStatements(name, dimension), FALSE, NoError,
            [status |-> "constructed"])

\* try: ... except Exception: pass -- whatever client.sql raises is dropped
EnsureCollectionExists(name, dimension, fault) ==
    Outcome(SentUntilFailure(SchemaStatements(name, dimension), fault),
            FALSE, NoError, [status |-> "constructed"])

NewHandle(name, dimension, distance_metric, metadata_config) ==
    [kind |-> "vector", name |-> name, dimension |-> dimension,
     distance_metric |-> distance_metric, metadata_config |-> metadata_config]

\* the tables of the store, as <<name, dimension>>: a table is there once the
\* executor accepted CREATE TABLE IF NOT EXISTS, which leaves an existing
\* table of that name as it is
TableNames == {t[1] : t \in tables}
TablesAfter(name, dimension, calls, fault) ==
    IF Len(calls) >= 1 /\ fault.at # 1 /\ name \notin TableNames
    THEN tables \cup {<<name, dimension>>}
    ELSE tables

Construct(name, dimension, metric, fault) ==
    LET r == EnsureCollectionExists(name, dimension, fault) IN
    /\ coll' = NewHandle(name, dimension, metric, {})
    /\ schemaSent' = Len(r.calls)
    /\ tables' = TablesAfter(name, dimension, r.calls, fault)
    /\ op' = [OpRecord("__init__",
                       [name |-> name, dimension |-> dimension,
                        existed |-> <<name, dimension>> \in tables], fault, r)
                EXCEPT !.handle = "vector"]
    /\ UNCHANGED <<driverVars, cycloneVars>>

\* ---- AuroraDB.create_collection / get_collection ------------------------
\* both build the VectorCollection of client.py, whose __init__ only stores
\* its arguments
BasicHandle(name, dimension, distance_metric) ==
    [kind |-> "basic", name |-> name, dimension |-> dimension,
     distance_metric |-> distance_metric, metadata_config |-> {}]

CreateCollection(name, dimension, metric) ==
    /\ coll' = BasicHandle(name, dimension, metric)
    /\ schemaSent' = 0
    /\ op' = [OpRecord("create_collection",
                       [name |-> name, dimension |-> dimension,
                        existed |-> <<name, dimension>> \in tables], NoFault,
                       Outcome(<<>>, FALSE, NoError, [status |-> "constructed"]))
                EXCEPT !.handle = "basic"]
    /\ UNCHANGED tables
    /\ UNCHANGED <<driverVars, cycloneVars>>

GetCollection(name) ==
    /\ coll' = BasicHandle(name, DefaultDimension, "cosine")
    /\ schemaSent' = 0
    /\ op' = [OpRecord("get_collection",
                       [name |-> name, dimension |-> DefaultDimension,
                        existed |-> <<name, DefaultDimension>> \in tables], NoFault,
                       Outcome(<<>>, FALSE, NoError, [status |-> "constructed"]))
                EXCEPT !.handle = "basic"]
    /\ UNCHANGED tables
    /\ UNCHANGED <<driverVars, cycloneVars>>

\* ---- VectorCollection.upsert -------------------------------------------
\* position of the first vector the validation loop rejects, 0 if none
RECURSIVE FirstBadVectorFrom(_, _, _)
FirstBadVectorFrom(i, vectors, dimension) ==
    IF i > Len(vectors) THEN 0
    ELSE IF Len(vectors[i]) # dimension THEN i
    ELSE FirstBadVectorFrom(i + 1, vectors, dimension)

\* a validation that looks at the first vector only
FirstBadVectorHeadOnly(vectors, dimension) ==
    IF Len(vectors) > 0 /\ Len(vectors[1]) # dimension THEN 1 ELSE 0

FirstBadVector(vectors, dimension) == FirstBadVectorFrom(1, vectors, dimension)

DimensionError(prefix, len, dimension) ==
    [type |-> "ValueError",
     message |-> <<prefix, ToString(len),
                   " does not match collection dimension ", ToString(dimension)>>]

\* ids = [str(uuid.uuid4()) for _ in range(len(vectors))]
GeneratedIds(n) == [i \in 1..n |-> <<"uuid-", ToString(i)>>]

\* metadata = [{}] * len(vectors)
EmptyMetadata(n) == [i \in 1..n |-> <<>>]

InsertQuery(name) ==
    <<"INSERT INTO ", name,
      " (id, vector, metadata) VALUES (?, ?, ?) ON CONFLICT (id) DO UPDATE SET vector = EXCLUDED.vector, metadata = EXCLUDED.metadata">>

\* a batch loop that slices [i:batch_size] instead of [i:i+batch_size]
UpsertStatementsFixedEnd(name, vectors, ids, metadata, batch_size) ==
    LET starts == RangeFrom(0, Len(vectors), batch_size) IN
    [k \in 1..Len(starts) |->
        Payload(InsertQuery(name),
                [bound |-> TRUE,
                 vectors |-> Slice(vectors, starts[k], batch_size),
                 ids |-> Slice(ids, starts[k], batch_size),
                 metadata |-> Slice(metadata, starts[k], batch_size)])]

\* for i in range(0, len(vectors), batch_size): one statement per slice
UpsertStatements(name, vectors, ids, metadata, batch_size) ==
    LET starts == RangeFrom(0, Len(vectors), batch_size) IN
    [k \in 1..Len(starts) |->
        Payload(InsertQuery(name),
                [bound |-> TRUE,
                 vectors |-> Slice(vectors, starts[k], starts[k] + batch_size),
                 ids |-> Slice(ids, starts[k], starts[k] + batch_size),
                 metadata |-> Slice(metadata, starts[k], starts[k] + batch_size)])]

\* a batch loop that sends a failed batch a second time before giving up
UpsertCallsRetryOnce(stmts, fault) ==
    IF fault.at >= 1 /\ fault.at <= Len(stmts)
    THEN SubSeq(stmts, 1, fault.at) \o <<stmts[fault.at]>>
    ELSE stmts

\* the executor calls of the batch loop; client.sql raising ends the loop
UpsertCalls(stmts, fault) == SentUntilFailure(stmts, fault)

\* an upsert that refuses ids or metadata whose length is not len(vectors)
UpsertChecksLengths(h, vectors, ids, metadata, batch_size, fault) ==
    LET bad == FirstBadVector(vectors, h.dimension)
        ids2 == IF ids.given THEN ids.v ELSE GeneratedIds(Len(vectors))
        md2 == IF metadata.given THEN metadata.v ELSE EmptyMetadata(Len(vectors))
        stmts == UpsertStatements(h.name, vectors, ids2, md2, batch_size)
        calls == UpsertCalls(stmts, fault)
    IN IF bad # 0
       THEN Outcome(<<>>, TRUE,
                    DimensionError("Vector dimension ", Len(vectors[bad]), h.dimension),
                    NoValue)
       ELSE IF Len(ids2) # Len(vectors) \/ Len(md2) # Len(vectors)
       THEN Outcome(<<>>, TRUE,
                    [type |-> "ValueError", message |-> <<"length mismatch">>],
                    NoValue)
       ELSE IF LastCallRaised(calls, fault)
       THEN Outcome(calls, TRUE, SqlError(ResponseAt(Len(calls), fault, <<>>)),
                    NoValue)
       ELSE Outcome(calls, FALSE, NoError,
                    [upserted_count |-> Len(vectors), batches |-> Len(calls)])

Upsert(h, vectors, ids, metadata, batch_size, fault) ==
    LET bad == FirstBadVector(vectors, h.dimension) IN
    IF bad # 0
    THEN Outcome(<<>>, TRUE,
                 DimensionError("Vector dimension ", Len(vectors[bad]), h.dimension),
                 NoValue)
    ELSE LET ids2 == IF ids.given THEN ids.v ELSE GeneratedIds(Len(vectors))
             md2 == IF metadata.given THEN metadata.v ELSE EmptyMetadata(Len(vectors))
             stmts == UpsertStatements(h.name, vectors, ids2, md2, batch_size)
             calls == UpsertCalls(stmts, fault)
         IN IF LastCallRaised(calls, fault)
            THEN Outcome(calls, TRUE, SqlError(ResponseAt(Len(calls), fault, <<>>)),
                         NoValue)
            ELSE Outcome(calls, FALSE, NoError,
                         [upserted_count |-> Len(vectors), batches |-> Len(calls)])

\* inputs of upsert
Vec(len) == [i \in 1..len |-> i]
VectorLens(d) == {d - 1, d, d + 1}
\* the i-th vector of an upsert: its components tell its position
VecAt(i, len) == [j \in 1..len |-> 10 * i + j]
VectorLists(d) ==
    UNION {{[i \in 1..n |-> VecAt(i, lens[i])] : lens \in [1..n -> VectorLens(d)]} :
              n \in 0..MaxVectors}
IdPool == [i \in 1..MaxVectors |-> <<"id", ToString(i)>>]
MetadataPool == [i \in 1..MaxVectors |-> <<[key |-> <<"a">>, value |-> <<ToString(i)>>]>>]
None == [given |-> FALSE, v |-> <<>>]
Given(v) == [given |-> TRUE, v |-> v]
\* None, one entry per vector, or one entry short
OptionalLists(pool, n) ==
    {None, Given(SubSeq(pool, 1, n))}
    \cup (IF n > 0 THEN {Given(SubSeq(pool, 1, n - 1))} ELSE {})
BatchSizes == 1..MaxBatch

PlannedBatches(h, vectors, batch_size) ==
    IF FirstBadVector(vectors, h.dimension) # 0 THEN 0
    ELSE Len(RangeFrom(0, Len(vectors), batch_size))

DoUpsert ==
    /\ op = Idle
    /\ coll.kind = "vector"
    /\ \E vectors \in VectorLists(coll.dimension), batch_size \in BatchSizes :
       \E ids \in OptionalLists(IdPool, Len(vectors)),
          metadata \in OptionalLists(MetadataPool, Len(vectors)),
          fault \in Faults(PlannedBatches(coll, vectors, batch_size)) :
            /\ op' = OpRecord("upsert",
                              [vectors |-> vectors, ids |-> ids,
                               metadata |-> metadata, batch_size |-> batch_size],
                              fault,
                              Upsert(coll, vectors, ids, metadata, batch_size, fault))
            /\ UNCHANGED <<coll, schemaSent, tables>>
            /\ UNCHANGED <<driverVars, cycloneVars>>

\* ---- VectorCollection.query --------------------------------------------
\* values a caller can put in a filter mapping
StrV(s) == [t |-> "str", s |-> s]
NumV(n) == [t |-> "num", n |-> n]
ListV(items) == [t |-> "list", items |-> items]
OpV(opr, operand) == [t |-> "dict", opr |-> opr, operand |-> operand]

\* f"'{v}'" if isinstance(v, str) else str(v), for the items of a list
ListItem(v) ==
    IF v.t = "str" THEN Quoted(v.s)
    ELSE IF v.t = "num" THEN <<ToString(v.n)>>
    ELSE <<"<object>">>

\* the fragments one filter entry appends to where_conditions: one for a
\* str, an int/float or a list, none for any other value
Condition(key, value) ==
    IF value.t = "str"
    THEN << <<"metadata->>">> \o Quoted(key) \o <<" = ">> \o Quoted(value.s) >>
    ELSE IF value.t = "num"
    THEN << <<"(metadata->>">> \o Quoted(key) \o <<")::float = ", ToString(value.n)>> >>
    ELSE IF value.t = "list"
    THEN << <<"metadata->>">> \o Quoted(key) \o <<" IN (">>
            \o Join([i \in 1..Len(value.items) |-> ListItem(value.items[i])], <<", ">>)
            \o <<")">> >>
    ELSE <<>>

\* for key, value in filter.items(): ...  (an empty filter is falsy)
RECURSIVE WhereConditions(_)
WhereConditions(filter) ==
    IF Len(filter) = 0 THEN <<>>
    ELSE Condition(filter[1].key, filter[1].value) \o WhereConditions(Tail(filter))

ScoreField(vector) ==
    <<"1 - (vector <=> ">> \o ArrayLiteral(vector) \o <<") as score">>

SelectFields(first, include_metadata, include_values) ==
    first
    \o (IF include_metadata THEN << <<"metadata">> >> ELSE <<>>)
    \o (IF include_values THEN << <<"vector">> >> ELSE <<>>)

\* a statement that has its WHERE keyword whether or not there are conditions
QueryTextAlwaysWhere(h, vector, top_k, include_metadata, include_values, filter) ==
    LET fields == SelectFields(<< <<"id">>, ScoreField(vector) >>,
                               include_metadata, include_values)
        conds == WhereConditions(filter)
    IN <<"SELECT ">> \o Join(fields, <<", ">>) \o <<" FROM ", h.name>>
       \o <<" WHERE ">> \o Join(conds, <<" AND ">>)
       \o <<" ORDER BY vector <=> ">> \o ArrayLiteral(vector)
       \o <<" LIMIT ", ToString(top_k)>>

QueryText(h, vector, top_k, include_metadata, include_values, filter) ==
    LET fields == SelectFields(<< <<"id">>, ScoreField(vector) >>,
                               include_metadata, include_values)
        conds == WhereConditions(filter)
    IN <<"SELECT ">> \o Join(fields, <<", ">>) \o <<" FROM ", h.name>>
       \o (IF Len(conds) > 0 THEN <<" WHERE ">> \o Join(conds, <<" AND ">>) ELSE <<>>)
       \o <<" ORDER BY vector <=> ">> \o ArrayLiteral(vector)
       \o <<" LIMIT ", ToString(top_k)>>

\* a cell of a result row; Null is SQL NULL / Python None
Cell(v) == [null |-> FALSE, v |-> v]
Null == [null |-> TRUE, v |-> <<>>]
\* x or default
OrDefault(cell, default) == IF cell.null THEN default ELSE cell.v

\* a formatter that reads the values from the column after the metadata
\* column whether or not metadata was selected
OptionalColumnsFixedPositions(row, base, include_metadata, include_values) ==
    LET hasMd == include_metadata /\ Len(row) > base
        hasV == include_values /\ Len(row) > base + 1
    IN [has_metadata |-> hasMd,
        metadata |-> IF hasMd THEN OrDefault(row[base + 1], <<>>) ELSE <<>>,
        has_values |-> hasV,
        values |-> IF hasV THEN OrDefault(row[base + 2], <<>>) ELSE <<>>]

\* the optional columns after the first `base` ones, read by position
OptionalColumns(row, base, include_metadata, include_values) ==
    LET hasMd == include_metadata /\ Len(row) > base
        colv == IF hasMd THEN base + 1 ELSE base
        hasV == include_values /\ Len(row) > colv
    IN [has_metadata |-> hasMd,
        metadata |-> IF hasMd THEN OrDefault(row[base + 1], <<>>) ELSE <<>>,
        has_values |-> hasV,
        values |-> IF hasV THEN OrDefault(row[colv + 1], <<>>) ELSE <<>>]

FormatMatch(row, include_metadata, include_values) ==
    [id |-> row[1].v, score |-> row[2].v,
     rest |-> OptionalColumns(row, 2, include_metadata, include_values)]

\* one client.sql call whose exception, if any, reaches the caller
SingleCall(stmt, fault, value) ==
    LET calls == SentUntilFailure(<<stmt>>, fault) IN
    IF LastCallRaised(calls, fault)
    THEN Outcome(calls, TRUE, SqlError(ResponseAt(1, fault, <<>>)), NoValue)
    ELSE Outcome(calls, FALSE, NoError, value)

Query(h, vector, top_k, include_metadata, include_values, filter, fault, rows) ==
    IF Len(vector) # h.dimension
    THEN Outcome(<<>>, TRUE,
                 DimensionError("Query vector dimension ", Len(vector), h.dimension),
                 NoValue)
    ELSE SingleCall(
           Payload(QueryText(h, vector, top_k, include_metadata, include_values, filter),
                   NoParameters),
           fault,
           [matches |-> [i \in 1..Len(rows) |->
                            FormatMatch(rows[i], include_metadata, include_values)],
            namespace |-> h.name,
            read_units |-> Len(rows)])

\* ---- VectorCollection.fetch / delete / update / describe / list ---------
\* "', '".join(ids) between the quotes of the template
IdList(ids) == <<Quote>> \o Join(ids, <<Quote, ", ", Quote>>) \o <<Quote>>

FetchText(h, ids, include_metadata, include_values) ==
    <<"SELECT ">>
    \o Join(SelectFields(<< <<"id">> >>, include_metadata, include_values), <<", ">>)
    \o <<" FROM ", h.name, " WHERE id IN (">> \o IdList(ids) \o <<")">>

\* a formatter that starts a new mapping for every row
FetchVectorsLastOnly(rows, include_metadata, include_values) ==
    IF Len(rows) = 0 THEN <<>>
    ELSE LET n == Len(rows) IN
         [k \in {rows[n][1].v} |->
             [id |-> k,
              rest |-> OptionalColumns(rows[n], 1, include_metadata, include_values)]]

\* vectors[str(row[0])] = vector_data, later rows replacing earlier ones
RECURSIVE FetchVectors(_, _, _)
FetchVectors(rows, include_metadata, include_values) ==
    IF Len(rows) = 0 THEN <<>>
    ELSE LET n == Len(rows)
             before == FetchVectors(SubSeq(rows, 1, n - 1),
                                    include_metadata, include_values)
             id == rows[n][1].v
         IN [k \in (DOMAIN before) \cup {id} |->
                IF k = id
                THEN [id |-> id,
                      rest |-> OptionalColumns(rows[n], 1, include_metadata,
                                               include_values)]
                ELSE before[k]]

Fetch(h, ids, include_metadata, include_values, fault, rows) ==
    SingleCall(Payload(FetchText(h, ids, include_metadata, include_values),
                       NoParameters),
               fault,
               [vectors |-> FetchVectors(rows, include_metadata, include_values),
                namespace |-> h.name])

DeleteText(h, ids) ==
    <<"DELETE FROM ", h.name, " WHERE id IN (">> \o IdList(ids) \o <<")">>

\* a delete that counts each id once
DeleteCountsDistinctIds(h, ids, fault) ==
    SingleCall(Payload(DeleteText(h, ids), NoParameters), fault,
               [deleted_count |-> Cardinality({ids[i] : i \in 1..Len(ids)}),
                namespace |-> h.name])

Delete(h, ids, fault) ==
    SingleCall(Payload(DeleteText(h, ids), NoParameters), fault,
               [deleted_count |-> Len(ids), namespace |-> h.name])

\* json.dumps of a dict of strings
JsonDumps(md) ==
    <<"{">>
    \o Join([i \in 1..Len(md) |->
               <<"\"">> \o md[i].key \o <<"\"", ": ", "\"">> \o md[i].value \o <<"\"">>],
            <<", ">>)
    \o <<"}">>

UpdateText(h, id, updates) ==
    <<"UPDATE ", h.name, " SET ">> \o Join(updates, <<", ">>)
    \o <<" WHERE id = ">> \o Quoted(id)

Update(h, id, values, metadata, fault) ==
    IF values.given /\ Len(values.v) # h.dimension
    THEN Outcome(<<>>, TRUE,
                 DimensionError("Vector dimension ", Len(values.v), h.dimension),
                 NoValue)
    ELSE LET updates ==
                 (IF values.given
                  THEN << <<"vector = ">> \o ArrayLiteral(values.v) >> ELSE <<>>)
                 \o (IF metadata.given
                     THEN << <<"metadata = ">> \o Quoted(JsonDumps(metadata.v)) >>
                     ELSE <<>>)
         IN IF Len(updates) = 0
            THEN Outcome(<<>>, TRUE,
                         [type |-> "ValueError",
                          message |-> <<"Must provide either values or metadata to update">>],
                         NoValue)
            ELSE SingleCall(Payload(UpdateText(h, id, updates), NoParameters), fault,
                            [updated_count |-> 1, namespace |-> h.name])

\* a describe that reports how many rows the answer has
DescribeRowsOfAnswer(h, fault, rows) ==
    SingleCall(Payload(<<"SELECT COUNT(*) FROM ", h.name>>, NoParameters), fault,
               [name |-> h.name, dimension |-> h.dimension,
                metric |-> h.distance_metric,
                total_vector_count |-> Len(rows),
                metadata_config |-> h.metadata_config])

Describe(h, fault, rows) ==
    SingleCall(Payload(<<"SELECT COUNT(*) FROM ", h.name>>, NoParameters), fault,
               [name |-> h.name, dimension |-> h.dimension,
                metric |-> h.distance_metric,
                total_vector_count |-> rows[1][1].v,
                metadata_config |-> h.metadata_config])

ListText(h, limit, offset) ==
    <<"SELECT id FROM ", h.name, " ORDER BY created_at DESC LIMIT ",
      ToString(limit), " OFFSET ", ToString(offset)>>

\* a list whose total also counts the rows the offset skipped
ListTotalWithSkipped(h, limit, offset, fault, rows) ==
    SingleCall(Payload(ListText(h, limit, offset), NoParameters), fault,
               [vectors |-> [i \in 1..Len(rows) |-> [id |-> rows[i][1].v]],
                namespace |-> h.name,
                pagination |-> [limit |-> limit, offset |-> offset,
                                total |-> offset + Len(rows)]])

List(h, limit, offset, fault, rows) ==
    SingleCall(Payload(ListText(h, limit, offset), NoParameters), fault,
               [vectors |-> [i \in 1..Len(rows) |-> [id |-> rows[i][1].v]],
                namespace |-> h.name,
                pagination |-> [limit |-> limit, offset |-> offset,
                                total |-> Len(rows)]])

\* ---- create_index -------------------------------------------------------
\* str.lower() on the index types the model passes
Lower(s) ==
    IF s = "IVF" THEN "ivf" ELSE IF s = "HNSW" THEN "hnsw" ELSE s

\* params.get(key, default)
Get(params, key, default) ==
    IF key \in DOMAIN params THEN params[key] ELSE default

IndexText(h, index_type, params) ==
    IF Lower(index_type) = "ivf"
    THEN <<"CREATE INDEX CONCURRENTLY IF NOT EXISTS idx_", h.name, "_ivf ON ",
           h.name, " USING ivfflat (vector vector_cosine_ops) WITH (lists = ",
           ToString(Get(params, "nlist", 100)), ")">>
    ELSE <<"CREATE INDEX CONCURRENTLY IF NOT EXISTS idx_", h.name, "_hnsw ON ",
           h.name, " USING hnsw (vector vector_cosine_ops) WITH (m = ",
           ToString(Get(params, "m", 16)), ", ef_construction = ",
           ToString(Get(params, "ef_construction", 64)), ")">>

\* try: collection.client.sql(query); return {... "created"}
\* except Exception as e: return {... "status": "error", "error": str(e)}
IndexCall(stmt, index_type, fault) ==
    LET calls == SentUntilFailure(<<stmt>>, fault) IN
    IF LastCallRaised(calls, fault)
    THEN Outcome(calls, FALSE, NoError,
                 [index_type |-> index_type, status |-> "error",
                  error |-> SqlError(ResponseAt(1, fault, <<>>)).message])
    ELSE Outcome(calls, FALSE, NoError,
                 [index_type |-> index_type, status |-> "created", error |-> <<>>])

\* a create_index that builds an hnsw index for every type that is not ivf
CreateIndexDefaultsToHnsw(h, index_type, params, fault) ==
    IndexCall(Payload(IndexText(h, index_type, params), NoParameters),
              index_type, fault)

CreateIndex(h, index_type, params, fault) ==
    IF Lower(index_type) \notin {"ivf", "hnsw"}
    THEN Outcome(<<>>, TRUE,
                 [type |-> "ValueError",
                  message |-> <<"Unsupported index type: ", index_type>>],
                 NoValue)
    ELSE IndexCall(Payload(IndexText(h, index_type, params), NoParameters),
                   index_type, fault)

\* ---- the VectorCollection of client.py ----------------------------------
\* update: `if vector:` / `if metadata:` test truthiness, nothing checks the
\* dimension, and the QueryResult of client.sql is returned as it is
BasicUpdate(h, id, vector, metadata, fault) ==
    LET updates ==
            (IF vector.given /\ Len(vector.v) > 0
             THEN << <<"vector = ">> \o ArrayLiteral(vector.v) >> ELSE <<>>)
            \o (IF metadata.given /\ Len(metadata.v) > 0
                THEN << <<"metadata = ">> \o Quoted(JsonDumps(metadata.v)) >>
                ELSE <<>>)
    IN IF Len(updates) = 0
       THEN Outcome(<<>>, TRUE,
                    [type |-> "ValueError",
                     message |-> <<"Must provide either vector or metadata to update">>],
                    NoValue)
       ELSE SingleCall(Payload(UpdateText(h, id, updates), NoParameters), fault,
                       [rows |-> <<>>])

BasicDelete(h, ids, fault) ==
    SingleCall(Payload(DeleteText(h, ids), NoParameters), fault, [rows |-> <<>>])

\* get: lookup = {str(row[0]): {"vector": row[1], "metadata": row[2]} ...},
\* later rows replacing earlier ones
RECURSIVE GetLookup(_)
GetLookup(rows) ==
    IF Len(rows) = 0 THEN <<>>
    ELSE LET n == Len(rows)
             before == GetLookup(SubSeq(rows, 1, n - 1))
             id == rows[n][1].v
         IN [k \in (DOMAIN before) \cup {id} |->
                IF k = id THEN [vector |-> rows[n][2], metadata |-> rows[n][3]]
                ELSE before[k]]

\* a result list that leaves out the ids without a row
RECURSIVE GetListSparse(_, _)
GetListSparse(ids, lookup) ==
    IF Len(ids) = 0 THEN <<>>
    ELSE (IF ids[1] \in DOMAIN lookup THEN <<Cell(lookup[ids[1]])>> ELSE <<>>)
         \o GetListSparse(Tail(ids), lookup)

\* [lookup.get(id) for id in ids]
GetList(ids, lookup) ==
    [i \in 1..Len(ids) |->
        IF ids[i] \in DOMAIN lookup THEN Cell(lookup[ids[i]]) ELSE Null]

GetText(h, ids) ==
    <<"SELECT id, vector, metadata FROM ", h.name, " WHERE id IN (">>
    \o IdList(ids) \o <<")">>

BasicGet(h, ids, fault, rows) ==
    SingleCall(Payload(GetText(h, ids), NoParameters), fault,
               [records |-> GetList(ids, GetLookup(rows))])

\* ---- inputs of the operations -------------------------------------------
RECURSIVE StringsOfLen(_)
StringsOfLen(n) ==
    IF n = 0 THEN {<<>>}
    ELSE {Append(s, c) : s \in StringsOfLen(n - 1), c \in Chars}

\* the strings a caller passes as record ids
CallerStrings == UNION {StringsOfLen(n) : n \in 1..MaxStrLen}
IdLists == UNION {[1..n -> CallerStrings] : n \in 0..MaxIds}

QueryVectors(d) == {Vec(l) : l \in VectorLens(d)}
TopKs == {10}
FilterKeys == {<<"a">>, <<Quote, "a">>}
FilterValues ==
    {StrV(<<"a">>), StrV(<<"a", Quote, "a">>), NumV(7),
     ListV(<<StrV(<<Quote>>), NumV(7)>>),
     OpV("gt", NumV(7)), OpV("regex", StrV(<<"a">>))}
FilterEntries == [key : FilterKeys, value : FilterValues]
\* mappings of at most MaxFilter entries, in insertion order
Filters ==
    {f \in UNION {[1..n -> FilterEntries] : n \in 0..MaxFilter} :
        \A i, j \in 1..Len(f) : i # j => f[i].key # f[j].key}

\* the id of the k-th row the executor returns: "a", "aa", ...
RowId(k) == [i \in 1..k |-> "a"]

\* result sets the executor answers with: k rows of ncols columns, the first
\* column the id; the second row has NULL in its optional columns
ResultRow(k, ncols) ==
    [c \in 1..ncols |->
        IF c = 1 THEN Cell(RowId(k))
        ELSE IF c = 2 THEN Cell(k)
        ELSE IF k = 2 THEN Null
        ELSE Cell(<<[key |-> <<"a">>, value |-> <<ToString(c)>>]>>)]
ResultSets(ncols) == {[k \in 1..n |-> ResultRow(k, ncols)] : n \in 0..MaxRows}
NumCols(base, include_metadata, include_values) ==
    base + (IF include_metadata THEN 1 ELSE 0) + (IF include_values THEN 1 ELSE 0)
CountRows == {<< <<Cell(n)>> >> : n \in 0..MaxRows}

\* what the executor does in an operation of one call: a result set or a failure
Answers(resultSets) ==
    [fault : {NoFault}, rows : resultSets]
    \cup [fault : Faults(1) \ {NoFault}, rows : {<<>>}]

OptionalVectors(d) == {None} \cup {Given(Vec(l)) : l \in VectorLens(d)}
MetadataDicts ==
    {None, Given(<<>>), Given(<<[key |-> <<"a">>, value |-> <<"a">>]>>),
     Given(<<[key |-> <<"a">>, value |-> <<Quote>>]>>)}
Limits == {1, 100}
Offsets == {0, 1}
IndexTypes == {"ivf", "IVF", "hnsw", "flat"}
IndexParams ==
    {<<>>, [nlist |-> 5], [m |-> 8, ef_construction |-> 32]}

\* an operation that notes on the handle that it has been used
UnchangedButUsed ==
    /\ coll' = [coll EXCEPT !.metadata_config = {"used"}]
    /\ UNCHANGED <<schemaSent, tables>>
    /\ UNCHANGED <<driverVars, cycloneVars>>

\* how many rows a DELETE or UPDATE the executor accepted found in the
\* store: the answer of client.sql, which delete and update bind to `result`
\* and never read
AffectedRows(fault, most) == IF fault = NoFault THEN 0..most ELSE {0}

Unchanged == UNCHANGED <<coll, schemaSent, tables>> /\ UNCHANGED <<driverVars, cycloneVars>>

DoQuery ==
    /\ op = Idle
    /\ coll.kind = "vector"
    /\ \E vector \in QueryVectors(coll.dimension), top_k \in TopKs,
          include_metadata \in BOOLEAN, include_values \in BOOLEAN,
          filter \in Filters :
       \E a \in Answers(ResultSets(NumCols(2, include_metadata, include_values))) :
            /\ op' = OpRecord("query",
                              [vector |-> vector, top_k |-> top_k,
                               include_metadata |-> include_metadata,
                               include_values |-> include_values,
                               filter |-> filter, rows |-> a.rows],
                              a.fault,
                              Query(coll, vector, top_k, include_metadata,
                                    include_values, filter, a.fault, a.rows))
            /\ Unchanged

DoFetch ==
    /\ op = Idle
    /\ coll.kind = "vector"
    /\ \E ids \in IdLists, include_metadata \in BOOLEAN, include_values \in BOOLEAN :
       \E a \in Answers(ResultSets(NumCols(1, include_metadata, include_values))) :
            /\ op' = OpRecord("fetch",
                              [ids |-> ids, include_metadata |-> include_metadata,
                               include_values |-> include_values, rows |-> a.rows],
                              a.fault,
                              Fetch(coll, ids, include_metadata, include_values,
                                    a.fault, a.rows))
            /\ Unchanged

DoDelete ==
    /\ op = Idle
    /\ coll.kind = "vector"
    /\ \E ids \in IdLists, fault \in Faults(1) :
       \E affected \in AffectedRows(fault, Cardinality({ids[i] : i \in 1..Len(ids)})) :
            /\ op' = OpRecord("delete", [ids |-> ids, affected |-> affected], fault,
                              Delete(coll, ids, fault))
            /\ Unchanged

DoUpdate ==
    /\ op = Idle
    /\ coll.kind = "vector"
    /\ \E id \in CallerStrings, values \in OptionalVectors(coll.dimension),
          metadata \in MetadataDicts, fault \in Faults(1) :
       \E affected \in AffectedRows(fault, 1) :
            /\ op' = OpRecord("update",
                              [id |-> id, values |-> values, metadata |-> metadata,
                               affected |-> affected],
                              fault, Update(coll, id, values, metadata, fault))
            /\ Unchanged

\* the rows the backend counted for the describe the caller has just made,
\* NotCounted when its last call was not a describe
Counted ==
    IF op.name # "describe" THEN NotCounted
    ELSE IF op.fault = NoFault THEN op.args.rows[1][1].v
    ELSE op.args.counted

\* describe, as the caller's next call or right after another describe
DoDescribe ==
    /\ op = Idle \/ (op.name = "describe" /\ op.handle = "vector")
    /\ coll.kind = "vector"
    /\ \E a \in Answers(CountRows) :
            \* nothing was sent for this table since the backend counted it:
            \* it has the same rows, and COUNT(*) is the same
            /\ (a.fault = NoFault /\ Counted # NotCounted)
                  => a.rows[1][1].v = Counted
            /\ op' = OpRecord("describe", [rows |-> a.rows, counted |-> Counted],
                              a.fault, Describe(coll, a.fault, a.rows))
            /\ Unchanged

DoList ==
    /\ op = Idle
    /\ coll.kind = "vector"
    /\ \E limit \in Limits, offset \in Offsets, a \in Answers(ResultSets(1)) :
            /\ op' = OpRecord("list",
                              [limit |-> limit, offset |-> offset, rows |-> a.rows],
                              a.fault, List(coll, limit, offset, a.fault, a.rows))
            /\ Unchanged

DoCreateIndex ==
    /\ op = Idle
    /\ coll.kind # "none"
    /\ \E index_type \in IndexTypes, params \in IndexParams, fault \in Faults(1) :
            /\ op' = OpRecord("create_index",
                              [index_type |-> index_type, params |-> params],
                              fault, CreateIndex(coll, index_type, params, fault))
            /\ Unchanged

DoBasicUpdate ==
    /\ op = Idle
    /\ coll.kind = "basic"
    /\ \E id \in CallerStrings, vector \in OptionalVectors(MaxDim),
          metadata \in MetadataDicts, fault \in Faults(1) :
            /\ op' = OpRecord("update",
                              [id |-> id, values |-> vector, metadata |-> metadata],
                              fault, BasicUpdate(coll, id, vector, metadata, fault))
            /\ Unchanged

DoBasicDelete ==
    /\ op = Idle
    /\ coll.kind = "basic"
    /\ \E ids \in IdLists, fault \in Faults(1) :
            /\ op' = OpRecord("delete", [ids |-> ids], fault,
                              BasicDelete(coll, ids, fault))
            /\ Unchanged

DoBasicGet ==
    /\ op = Idle
    /\ coll.kind = "basic"
    /\ \E ids \in IdLists, a \in Answers(ResultSets(3)) :
            /\ op' = OpRecord("get", [ids |-> ids, rows |-> a.rows], a.fault,
                              BasicGet(coll, ids, a.fault, a.rows))
            /\ Unchanged

\* ---- the driver: AuroraClient and AuroraTransaction (aurora/driver.py) ---
\* The caller awaits its calls one after the other.  The native client is
\* the environment: a native call returns or raises _NativeError.
NativeOutcomes == {"ok", "error"}
NativeMessage == "native failure"

\* AuroraTransaction.__init__: _committed = False, _rolled_back = False
NoTransaction == [exists |-> FALSE, committed |-> FALSE, rolled_back |-> FALSE]

\* what a call of the driver left: the exception it raised, if any, and the
\* native method it invoked, "" if none
DriverOutcome(raised, error, method) ==
    [raised |-> raised, error |-> error, method |-> method]

DriverCall(name, r) ==
    [name |-> name, raised |-> r.raised, error |-> r.error, method |-> r.method,
     before |-> [closed |-> closed, txn |-> txn]]

\* raise AuroraError(f"<what> failed: {e}")
FailedMessage(name) ==
    CASE name = "query" -> "Query failed: "
      [] name = "execute" -> "Execute failed: "
      [] name = "vector_search" -> "Vector search failed: "
      [] name = "analytics_query" -> "Analytics query failed: "
      [] name = "transaction" -> "Transaction start failed: "
      [] name = "batch_execute" -> "Batch execute failed: "
      [] name = "health_check" -> "Health check failed: "
      [] name = "txn.query" -> "Transaction query failed: "
      [] name = "txn.execute" -> "Transaction execute failed: "
      [] name = "txn.commit" -> "Transaction commit failed: "
      [] name = "txn.rollback" -> "Transaction rollback failed: "

\* the method of the native object a call awaits
NativeMethod(name, with_params) ==
    CASE name \in {"query", "txn.query"} ->
            IF with_params THEN "query_with_params" ELSE "query"
      [] name \in {"execute", "txn.execute"} ->
            IF with_params THEN "execute_with_params" ELSE "execute"
      [] name = "vector_search" -> "vector_search_advanced"
      [] name = "txn.commit" -> "commit"
      [] name = "txn.rollback" -> "rollback"
      [] OTHER -> name

\* try: result = await native...; return ...
\* except _NativeError as e: raise AuroraError(f"... failed: {e}")
AwaitNative(name, with_params, outcome) ==
    IF outcome = "error"
    THEN DriverOutcome(TRUE, <<FailedMessage(name), NativeMessage>>,
                       NativeMethod(name, with_params))
    ELSE DriverOutcome(FALSE, <<>>, NativeMethod(name, with_params))

\* a method of AuroraClient other than close:
\* if self._closed: raise AuroraError("Client is closed")
ClientCall(name, with_params, outcome) ==
    IF closed
    THEN DriverOutcome(TRUE, <<"Client is closed">>, "")
    ELSE AwaitNative(name, with_params, outcome)

\* the methods whose `if params:` chooses the native method
ParamChoices(name) ==
    IF name \in {"query", "execute", "txn.query", "txn.execute"}
    THEN BOOLEAN ELSE {FALSE}

\* the caller awaits a method of the client that leaves the client as it is
ClientMethod(name, with_params, outcome) ==
    /\ dcall' = DriverCall(name, ClientCall(name, with_params, outcome))
    /\ UNCHANGED <<closed, txn, native>>

ClientQuery ==
    /\ \E with_params \in ParamChoices("query"), outcome \in NativeOutcomes :
          ClientMethod("query", with_params, outcome)
    /\ UNCHANGED <<facadeVars, cycloneVars>>

ClientExecute ==
    /\ \E with_params \in ParamChoices("execute"), outcome \in NativeOutcomes :
          ClientMethod("execute", with_params, outcome)
    /\ UNCHANGED <<facadeVars, cycloneVars>>

ClientVectorSearch ==
    /\ \E outcome \in NativeOutcomes : ClientMethod("vector_search", FALSE, outcome)
    /\ UNCHANGED <<facadeVars, cycloneVars>>

ClientAnalyticsQuery ==
    /\ \E outcome \in NativeOutcomes : ClientMethod("analytics_query", FALSE, outcome)
    /\ UNCHANGED <<facadeVars, cycloneVars>>

\* transaction() returns AuroraTransaction(native_txn); the model follows
\* the first transaction the caller gets
ClientTransaction ==
    /\ \E outcome \in NativeOutcomes :
          LET r == ClientCall("transaction", FALSE, outcome) IN
          /\ dcall' = DriverCall("transaction", r)
          /\ txn' = IF ~r.raised /\ ~txn.exists THEN [NoTransaction EXCEPT !.exists = TRUE] ELSE txn
    /\ UNCHANGED <<closed, native>>
    /\ UNCHANGED <<facadeVars, cycloneVars>>

ClientBatchExecute ==
    /\ \E outcome \in NativeOutcomes : ClientMethod("batch_execute", FALSE, outcome)
    /\ UNCHANGED <<facadeVars, cycloneVars>>

ClientHealthCheck ==
    /\ \E outcome \in NativeOutcomes : ClientMethod("health_check", FALSE, outcome)
    /\ UNCHANGED <<facadeVars, cycloneVars>>

\* close: if not self._closed and self._native_client:
\*            await self._native_client.close(); self._closed = True
\* a _NativeError of the native close leaves close as it is
Close(outcome) ==
    IF closed
    THEN [closed |-> closed, count |-> native.close,
          r |-> DriverOutcome(FALSE, <<>>, "")]
    ELSE IF outcome = "error"
    THEN [closed |-> closed, count |-> native.close + 1,
          r |-> DriverOutcome(TRUE, <<NativeMessage>>, "close")]
    ELSE [closed |-> TRUE, count |-> native.close + 1,
          r |-> DriverOutcome(FALSE, <<>>, "close")]

ClientClose ==
    /\ closed \/ native.close < MaxNativeCalls
    /\ \E outcome \in NativeOutcomes :
        LET c == Close(outcome) IN
        /\ closed' = c.closed
        /\ native' = [native EXCEPT !.close = c.count]
        /\ dcall' = DriverCall("close", c.r)
        /\ UNCHANGED txn
        /\ UNCHANGED <<facadeVars, cycloneVars>>

\* a _check_active that looks at _rolled_back only
CheckActiveRolledBackOnly(t) ==
    IF t.rolled_back THEN "Transaction already rolled back" ELSE ""

\* _check_active: the message of the AuroraError it raises, "" if none
CheckActive(t) ==
    IF t.committed THEN "Transaction already committed"
    ELSE IF t.rolled_back THEN "Transaction already rolled back"
    ELSE ""

\* AuroraTransaction.query / execute
TransactionCall(name, with_params, outcome) ==
    IF CheckActive(txn) # ""
    THEN DriverOutcome(TRUE, <<CheckActive(txn)>>, "")
    ELSE AwaitNative(name, with_params, outcome)

TransactionMethod(name, with_params, outcome) ==
    /\ dcall' = DriverCall(name, TransactionCall(name, with_params, outcome))
    /\ UNCHANGED <<closed, txn, native>>

TransactionQuery ==
    /\ txn.exists
    /\ \E with_params \in ParamChoices("txn.query"), outcome \in NativeOutcomes :
          TransactionMethod("txn.query", with_params, outcome)
    /\ UNCHANGED <<facadeVars, cycloneVars>>

TransactionExecute ==
    /\ txn.exists
    /\ \E with_params \in ParamChoices("txn.execute"), outcome \in NativeOutcomes :
          TransactionMethod("txn.execute", with_params, outcome)
    /\ UNCHANGED <<facadeVars, cycloneVars>>

\* commit: self._check_active(); await self._native_txn.commit();
\*         self._committed = True
Commit(outcome) ==
    IF CheckActive(txn) # ""
    THEN [txn |-> txn, count |-> native.commit,
          r |-> DriverOutcome(TRUE, <<CheckActive(txn)>>, "")]
    ELSE IF outcome = "error"
    THEN [txn |-> txn, count |-> native.commit + 1,
          r |-> AwaitNative("txn.commit", FALSE, outcome)]
    ELSE [txn |-> [txn EXCEPT !.committed = TRUE], count |-> native.commit + 1,
          r |-> AwaitNative("txn.commit", FALSE, outcome)]

TransactionCommit ==
    /\ txn.exists
    /\ CheckActive(txn) # "" \/ native.commit < MaxNativeCalls
    /\ \E outcome \in NativeOutcomes :
        LET c == Commit(outcome) IN
        /\ txn' = c.txn
        /\ native' = [native EXCEPT !.commit = c.count]
        /\ dcall' = DriverCall("txn.commit", c.r)
        /\ UNCHANGED closed
        /\ UNCHANGED <<facadeVars, cycloneVars>>

\* rollback: if not self._committed: await self._native_txn.rollback()
\*           self._rolled_back = True
Rollback(outcome) ==
    IF txn.committed
    THEN [txn |-> [txn EXCEPT !.rolled_back = TRUE], count |-> native.rollback,
          r |-> DriverOutcome(FALSE, <<>>, "")]
    ELSE IF outcome = "error"
    THEN [txn |-> txn, count |-> native.rollback + 1,
          r |-> AwaitNative("txn.rollback", FALSE, outcome)]
    ELSE [txn |-> [txn EXCEPT !.rolled_back = TRUE], count |-> native.rollback + 1,
          r |-> AwaitNative("txn.rollback", FALSE, outcome)]

TransactionRollback ==
    /\ txn.exists
    /\ txn.committed \/ native.rollback < MaxNativeCalls
    /\ \E outcome \in NativeOutcomes :
        LET c == Rollback(outcome) IN
        /\ txn' = c.txn
        /\ native' = [native EXCEPT !.rollback = c.count]
        /\ dcall' = DriverCall("txn.rollback", c.r)
        /\ UNCHANGED closed
        /\ UNCHANGED <<facadeVars, cycloneVars>>

\* AuroraClient.connect returned: _native_client is set, _closed is False,
\* no transaction was started and nothing was closed
DriverInit ==
    /\ closed = FALSE
    /\ txn = NoTransaction
    /\ native = [close |-> 0, commit |-> 0, rollback |-> 0]
    /\ dcall = [name |-> "", raised |-> FALSE, error |-> <<>>, method |-> "",
                before |-> [closed |-> FALSE, txn |-> NoTransaction]]

\* ---- the event-loop binding: the runtime handle and WebApp (cyclone.py) --
\* The native library is the environment: cyclone_init and
\* cyclone_web_app_new return a pointer or NULL, the other calls an int.
\* _cyclone_handle = None; a handle is the number of the cyclone_init call
\* that returned it
NoRuntime == 0
NativePointers == {"pointer", "null"}
NativeResults == {0, 1}

CycloneCall(name, app, raised, error) ==
    [name |-> name, app |-> app, raised |-> raised, error |-> error,
     before |-> cyclone_handle]

\* an init that does not look at _cyclone_handle first
InitRuntimeUnguarded(h, l, outcome) ==
    IF outcome = "null"
    THEN [handle |-> NoRuntime,
          lib |-> [l EXCEPT !.init = @ + 1, !.since_shutdown = @ + 1],
          raised |-> TRUE, error |-> <<"Failed to initialize Cyclone">>]
    ELSE [handle |-> l.init + 1,
          lib |-> [l EXCEPT !.init = @ + 1, !.since_shutdown = @ + 1,
                            !.ok_since_shutdown = @ + 1,
                            !.shutdowns_since_init = 0],
          raised |-> FALSE, error |-> <<>>]

\* init: if _cyclone_handle is not None: return
\*       _cyclone_handle = _lib.cyclone_init()
\*       if _cyclone_handle is None: raise CycloneRuntimeError(...)
\* h is the handle and l the calls the library has seen
InitRuntime(h, l, outcome) ==
    IF h # NoRuntime
    THEN [handle |-> h, lib |-> l, raised |-> FALSE, error |-> <<>>]
    ELSE IF outcome = "null"
    THEN [handle |-> NoRuntime,
          lib |-> [l EXCEPT !.init = @ + 1, !.since_shutdown = @ + 1],
          raised |-> TRUE, error |-> <<"Failed to initialize Cyclone">>]
    ELSE [handle |-> l.init + 1,
          lib |-> [l EXCEPT !.init = @ + 1, !.since_shutdown = @ + 1,
                            !.ok_since_shutdown = @ + 1,
                            !.shutdowns_since_init = 0],
          raised |-> FALSE, error |-> <<>>]

\* shutdown: if _cyclone_handle is not None:
\*               _lib.cyclone_shutdown(_cyclone_handle); _cyclone_handle = None
Shutdown(h, l) ==
    IF h # NoRuntime
    THEN [handle |-> NoRuntime,
          lib |-> [l EXCEPT !.shutdowns_since_init = @ + 1,
                            !.since_shutdown = 0, !.ok_since_shutdown = 0]]
    ELSE [handle |-> h, lib |-> l]

CycloneInit ==
    /\ cyclone_handle # NoRuntime \/ lib.init < MaxInits
    /\ \E outcome \in NativePointers :
        LET r == InitRuntime(cyclone_handle, lib, outcome) IN
        /\ cyclone_handle' = r.handle
        /\ lib' = r.lib
        /\ ccall' = CycloneCall("init", 0, r.raised, r.error)
    /\ UNCHANGED apps
    /\ UNCHANGED <<facadeVars, driverVars>>

CycloneShutdown ==
    /\ LET r == Shutdown(cyclone_handle, lib) IN
        /\ cyclone_handle' = r.handle
        /\ lib' = r.lib
    /\ ccall' = CycloneCall("shutdown", 0, FALSE, <<>>)
    /\ UNCHANGED apps
    /\ UNCHANGED <<facadeVars, driverVars>>

\* WebApp.__init__: the application remembers the runtime it was made on
NewWebApp(h, outcome) ==
    IF h = NoRuntime
    THEN [made |-> FALSE,
          error |-> <<"Cyclone not initialized. Call cyclone.init() first">>]
    ELSE IF outcome = "null"
    THEN [made |-> FALSE, error |-> <<"Failed to create web application">>]
    ELSE [made |-> TRUE, error |-> <<>>,
          app |-> [runtime |-> h, routes |-> 0, configured |-> FALSE]]

WebAppNew ==
    /\ Len(apps) < MaxApps
    /\ \E outcome \in NativePointers :
        LET r == NewWebApp(cyclone_handle, outcome) IN
        /\ apps' = IF r.made THEN Append(apps, r.app) ELSE apps
        /\ ccall' = CycloneCall("WebApp", IF r.made THEN Len(apps) + 1 ELSE 0,
                                ~r.made, r.error)
    /\ UNCHANGED <<cyclone_handle, lib>>
    /\ UNCHANGED <<facadeVars, driverVars>>

\* configure: the attributes are assigned after the native call succeeded
WebAppConfigure ==
    /\ \E i \in 1..Len(apps), result \in NativeResults :
        /\ apps' = IF result = 0 THEN [apps EXCEPT ![i].configured = TRUE] ELSE apps
        /\ ccall' = CycloneCall("configure", i, result # 0,
                                IF result # 0
                                THEN <<"Failed to configure web app: ", result>>
                                ELSE <<>>)
    /\ UNCHANGED <<cyclone_handle, lib>>
    /\ UNCHANGED <<facadeVars, driverVars>>

\* route: the route is appended to _routes before the native call
WebAppRoute ==
    /\ \E i \in 1..Len(apps), result \in NativeResults :
        /\ apps[i].routes < MaxRoutes
        /\ apps' = [apps EXCEPT ![i].routes = @ + 1]
        /\ ccall' = CycloneCall("route", i, result # 0,
                                IF result # 0
                                THEN <<"Failed to add route: ", result>>
                                ELSE <<>>)
    /\ UNCHANGED <<cyclone_handle, lib>>
    /\ UNCHANGED <<facadeVars, driverVars>>

\* run: try: result = native run; if result != 0: raise CycloneRuntimeError
\*      except KeyboardInterrupt: ...   finally: shutdown()
\* interrupted: KeyboardInterrupt came while the native run was going on
Run(h, l, result, interrupted) ==
    LET s == Shutdown(h, l) IN
    [handle |-> s.handle, lib |-> s.lib,
     raised |-> ~interrupted /\ result # 0,
     error |-> IF ~interrupted /\ result # 0
               THEN <<"Failed to run web app: ", result>> ELSE <<>>]

WebAppRun ==
    /\ \E i \in 1..Len(apps), result \in NativeResults, interrupted \in BOOLEAN :
        LET r == Run(cyclone_handle, lib, result, interrupted) IN
        /\ cyclone_handle' = r.handle
        /\ lib' = r.lib
        /\ ccall' = CycloneCall("run", i, r.raised, r.error)
    /\ UNCHANGED apps
    /\ UNCHANGED <<facadeVars, driverVars>>

\* the module was imported: its last statement, init(), got a handle
CycloneImported ==
    /\ cyclone_handle = 1
    /\ lib = [init |-> 1, since_shutdown |-> 1, ok_since_shutdown |-> 1,
              shutdowns_since_init |-> 0]
    /\ apps = <<>>
    /\ ccall = [name |-> "", app |-> 0, raised |-> FALSE, error |-> <<>>,
                before |-> NoRuntime]

Init ==
    /\ coll = NoHandle
    /\ schemaSent = 0
    /\ tables = {}
    /\ op = Idle
    /\ DriverInit
    /\ CycloneImported

\* the caller is done with the result (or the exception) of its last call
\* and goes on to its next statement
Return ==
    /\ op.name # ""
    /\ op' = Idle
    /\ UNCHANGED <<coll, schemaSent, tables>>
    /\ UNCHANGED <<driverVars, cycloneVars>>

DoConstruct ==
    /\ op = Idle
    /\ \E name \in Names, d \in Dimensions, m \in Metrics :
       \E fault \in Faults(Len(SchemaStatements(name, d))) :
        Construct(name, d, m, fault)

DoCreateCollection ==
    /\ op = Idle
    /\ \E name \in Names, d \in Dimensions, m \in Metrics :
        CreateCollection(name, d, m)

DoGetCollection ==
    /\ op = Idle
    /\ \E name \in Names : GetCollection(name)

Next ==
    \/ DoConstruct
    \/ DoCreateCollection
    \/ DoGetCollection
    \/ DoUpsert
    \/ DoQuery
    \/ DoFetch
    \/ DoDelete
    \/ DoUpdate
    \/ DoDescribe
    \/ DoList
    \/ DoCreateIndex
    \/ DoBasicUpdate
    \/ DoBasicDelete
    \/ DoBasicGet
    \/ Return

Spec == Init /\ [][Next]_vars

\* the calls of a caller of the driver, on a connected client
DriverNext ==
    \/ ClientQuery
    \/ ClientExecute
    \/ ClientVectorSearch
    \/ ClientAnalyticsQuery
    \/ ClientTransaction
    \/ ClientBatchExecute
    \/ ClientHealthCheck
    \/ ClientClose
    \/ TransactionQuery
    \/ TransactionExecute
    \/ TransactionCommit
    \/ TransactionRollback

DriverSpec == Init /\ [][DriverNext]_vars

CycloneNext ==
    \/ CycloneInit
    \/ CycloneShutdown
    \/ WebAppNew
    \/ WebAppConfigure
    \/ WebAppRoute
    \/ WebAppRun

CycloneSpec == Init /\ [][CycloneNext]_vars

\* ---- properties ---------------------------------------------------------
Range(f) == {f[i] : i \in DOMAIN f}
VectorOps == {"upsert", "query", "fetch", "update", "delete", "describe", "list"}
OnVectorHandle(name) == op.name = name /\ op.handle = "vector"
IsDimensionError(e) ==
    e.type = "ValueError" /\ " does not match collection dimension " \in Range(e.message)
HasBadVector(vectors) == \E i \in 1..Len(vectors) : Len(vectors[i]) # coll.dimension
CeilDiv(n, b) == (n + b - 1) \div b

\* C1: a query vector, or any vector of an upsert at any position, whose
\* length differs from the collection's dimension makes the operation fail
\* with the dimension-mismatch error, and the operation calls the executor
\* zero times.
DimensionMismatchFailsFast ==
    /\ (OnVectorHandle("upsert") /\ HasBadVector(op.args.vectors))
          => (op.raised /\ IsDimensionError(op.error) /\ op.calls = <<>>)
    /\ (OnVectorHandle("query") /\ Len(op.args.vector) # coll.dimension)
          => (op.raised /\ IsDimensionError(op.error) /\ op.calls = <<>>)

\* an upsert of three vectors whose last one is the only bad one was rejected
BadVectorLastRejected ==
    /\ OnVectorHandle("upsert")
    /\ Len(op.args.vectors) = 3
    /\ Len(op.args.vectors[1]) = coll.dimension
    /\ Len(op.args.vectors[2]) = coll.dimension
    /\ Len(op.args.vectors[3]) # coll.dimension
    /\ op.raised

\* C2: N valid vectors with batch_size B >= 1 and an executor that answers
\* every call: upsert makes exactly ceil(N/B) calls and returns
\* upserted_count = N and batches = ceil(N/B); N = 0 makes no call.
UpsertBatchCount ==
    (/\ OnVectorHandle("upsert")
     /\ ~HasBadVector(op.args.vectors)
     /\ op.fault.at = 0)
    => LET n == Len(op.args.vectors)
           b == op.args.batch_size
       IN /\ ~op.raised
          /\ Len(op.calls) = CeilDiv(n, b)
          /\ op.value.upserted_count = n
          /\ op.value.batches = CeilDiv(n, b)
          /\ (n = 0 => op.calls = <<>>)

\* three valid vectors went out in two batches, the last one partial
UpsertPartialLastBatch ==
    /\ OnVectorHandle("upsert")
    /\ Len(op.args.vectors) = 3
    /\ op.args.batch_size = 2
    /\ ~op.raised
    /\ Len(op.calls) = 2
    /\ Len(op.calls[2].parameters.vectors) = 1

\* C3: when the executor fails batch k of an upsert, what the caller gets
\* tells k (and so the k-1 batches committed before it): the failure of any
\* other batch of the same request would have been reported differently.
UpsertFailureIdentifiesBatch ==
    (OnVectorHandle("upsert") /\ op.raised /\ op.fault.at >= 1)
    => \A k \in 1..PlannedBatches(coll, op.args.vectors, op.args.batch_size) :
          k # op.fault.at
          => Upsert(coll, op.args.vectors, op.args.ids, op.args.metadata,
                    op.args.batch_size, [at |-> k, err |-> op.fault.err]).error
             # op.error

\* the string literals of a SQL text, read the way a SQL lexer reads them:
\* a quote opens a literal, two quotes inside it are one quote character, a
\* single quote closes it; a literal the text ends in is not closed
RECURSIVE StringLiterals(_, _, _, _)
StringLiterals(text, i, cur, inLiteral) ==
    IF i > Len(text)
    THEN IF inLiteral THEN <<[closed |-> FALSE, value |-> cur]>> ELSE <<>>
    ELSE IF ~inLiteral
    THEN StringLiterals(text, i + 1, <<>>, text[i] = Quote)
    ELSE IF text[i] # Quote
    THEN StringLiterals(text, i + 1, Append(cur, text[i]), TRUE)
    ELSE IF i + 1 <= Len(text) /\ text[i + 1] = Quote
    THEN StringLiterals(text, i + 2, Append(cur, Quote), TRUE)
    ELSE <<[closed |-> TRUE, value |-> cur]>>
         \o StringLiterals(text, i + 1, <<>>, FALSE)

Literal(s) == [closed |-> TRUE, value |-> s]

\* the caller's strings that a filter puts in literals, in order
RECURSIVE FilterStrings(_)
FilterStrings(filter) ==
    IF Len(filter) = 0 THEN <<>>
    ELSE LET e == filter[1]
             own == IF e.value.t = "str" THEN <<e.value.s>>
                    ELSE IF e.value.t = "list"
                    THEN LET strs == SelectSeq(e.value.items, LAMBDA v : v.t = "str")
                         IN [i \in 1..Len(strs) |-> strs[i].s]
                    ELSE <<>>
         IN <<e.key>> \o own \o FilterStrings(Tail(filter))

\* the caller's strings an operation has to put in literals, in order
CallerLiterals ==
    IF op.name \in {"fetch", "delete"} THEN op.args.ids
    ELSE IF op.name = "update" THEN <<op.args.id>>
    ELSE FilterStrings(op.args.filter)

\* C4: the statement of fetch, delete, update and query holds every
\* caller-supplied string (record ids, filter field names, string filter
\* values) as one SQL string token whose value is that string.
CallerStringsAreEscaped ==
    (/\ op.handle = "vector"
     /\ op.name \in {"fetch", "delete", "update", "query"}
     /\ Len(op.calls) = 1
     /\ op.name \in {"fetch", "delete"} => Len(op.args.ids) >= 1
     /\ op.name = "update" => ~op.args.metadata.given
     /\ op.name = "query" => \A i \in 1..Len(op.args.filter) :
                                 op.args.filter[i].value.t # "dict")
    => StringLiterals(op.calls[1].query, 1, <<>>, FALSE)
       = [i \in 1..Len(CallerLiterals) |-> Literal(CallerLiterals[i])]

SupportedOperators == {"eq", "ne", "gt", "gte", "lt", "lte", "in"}
\* an operator object the Filter Compiler has to reject
BadOperator(v) ==
    /\ v.t = "dict"
    /\ \/ v.opr \notin SupportedOperators
       \/ v.opr \in {"gt", "gte", "lt", "lte"} /\ v.operand.t # "num"
       \/ v.opr = "in" /\ v.operand.t # "list"
       \/ v.opr \in {"eq", "ne"} /\ v.operand.t \notin {"str", "num"}

\* C5: a query whose filter holds an operator object with an unsupported
\* operator or a malformed operand fails with a validation error before any
\* executor call, and no filter entry is left out of the WHERE clause of a
\* statement that is sent.
QueryRejectsBadFilter ==
    (OnVectorHandle("query") /\ Len(op.args.vector) = coll.dimension)
    => /\ (\E i \in 1..Len(op.args.filter) : BadOperator(op.args.filter[i].value))
             => (op.raised /\ op.error.type = "ValueError" /\ op.calls = <<>>)
       /\ Len(op.calls) = 1
             => Len(WhereConditions(op.args.filter)) = Len(op.args.filter)

\* C6: a failure of schema creation other than "already exists" reaches the
\* caller of the constructor with the backend's message.
ConstructPropagatesGenuineFailure ==
    (op.name = "__init__" /\ op.fault.at >= 1 /\ op.fault.err # "already exists")
    => (op.raised /\ op.error.message = <<op.fault.err>>)

\* C7: constructing a handle for a name and dimension whose table already
\* exists never raises a backend error, whatever the executor answers.
SecondConstructionDoesNotRaise ==
    (op.name = "__init__" /\ op.args.existed)
    => ~(op.raised /\ op.error.type = "AuroraDBError")

\* the second construction met an executor that answered "already exists"
SecondConstructionAlreadyExists ==
    /\ op.name = "__init__"
    /\ op.args.existed
    /\ op.fault = [at |-> 1, err |-> "already exists"]
    /\ ~op.raised
    /\ coll.kind = "vector"

\* C8: an operation of a handle reaches the executor only after the
\* construction of that handle sent the schema-creation statements.
OperationsOnlyWhenReady ==
    (op.name \in VectorOps /\ Len(op.calls) >= 1) => schemaSent >= 1

\* C9: a failure the executor reports for the statement of create_index is
\* raised to the caller with the original message.
CreateIndexRaisesBackendError ==
    (op.name = "create_index" /\ Len(op.calls) = 1 /\ op.fault.at = 1)
    => (op.raised /\ op.error.message = <<op.fault.err>>)

\* C10: no operation of the facade retries: no statement is sent twice, an
\* operation of one statement makes at most one call, and the failed call is
\* the last call of its operation (and the operation raises).
NoRetry ==
    (op.handle = "vector" /\ op.name \in VectorOps)
    => /\ \A i, j \in 1..Len(op.calls) : i # j => op.calls[i] # op.calls[j]
       /\ op.name # "upsert" => Len(op.calls) <= 1
       /\ (op.fault.at >= 1 /\ Len(op.calls) >= op.fault.at)
             => (Len(op.calls) = op.fault.at /\ op.raised)

\* the second of three batches failed and the third was never sent
UpsertStoppedAtFailedBatch ==
    /\ OnVectorHandle("upsert")
    /\ PlannedBatches(coll, op.args.vectors, op.args.batch_size) = 3
    /\ op.fault.at = 2
    /\ Len(op.calls) = 2
    /\ op.raised
\* the lists of the batches sent, one after the other
RECURSIVE ConcatBatches(_, _)
ConcatBatches(calls, field) ==
    IF Len(calls) = 0 THEN <<>>
    ELSE calls[1].parameters[field] \o ConcatBatches(Tail(calls), field)

\* C11: the batches of an upsert are sent in input order, each holds at most
\* batch_size records and every batch but the last exactly batch_size; record
\* j of batch k is input record (k-1)*batch_size + j in vectors, ids and
\* metadata alike, and when every batch is sent the batches concatenated are
\* the input.
UpsertBatchesPreserveOrder ==
    (OnVectorHandle("upsert") /\ ~HasBadVector(op.args.vectors))
    => LET b == op.args.batch_size
           n == Len(op.args.vectors)
           at(k, j) == (k - 1) * b + j
       IN /\ \A k \in 1..Len(op.calls) :
                LET p == op.calls[k].parameters IN
                /\ Len(p.vectors) <= b
                /\ Len(p.vectors) >= 1
                /\ k < CeilDiv(n, b) => Len(p.vectors) = b
                /\ \A j \in 1..Len(p.vectors) : p.vectors[j] = op.args.vectors[at(k, j)]
                /\ op.args.ids.given =>
                      \A j \in 1..Len(p.ids) : p.ids[j] = op.args.ids.v[at(k, j)]
                /\ op.args.metadata.given =>
                      \A j \in 1..Len(p.metadata) :
                          p.metadata[j] = op.args.metadata.v[at(k, j)]
          /\ ~op.raised =>
                /\ ConcatBatches(op.calls, "vectors") = op.args.vectors
                /\ op.args.ids.given => ConcatBatches(op.calls, "ids") = op.args.ids.v
                /\ op.args.metadata.given =>
                      ConcatBatches(op.calls, "metadata") = op.args.metadata.v

\* three records with their ids and metadata went out as a batch of two and
\* a batch of one
UpsertTwoBatchesWithIds ==
    /\ OnVectorHandle("upsert")
    /\ Len(op.args.vectors) = 3
    /\ op.args.batch_size = 2
    /\ op.args.ids = Given(IdPool)
    /\ op.args.metadata = Given(MetadataPool)
    /\ ~op.raised
    /\ Len(op.calls) = 2
    /\ op.calls[2].parameters.ids = <<IdPool[3]>>
\* C12: the distance expressions of a query follow the collection's metric:
\* a cosine collection emits 1 - (vector <=> literal), and the statement a
\* collection of any other metric would emit for the same call is different.
DistanceOperatorFollowsMetric ==
    (OnVectorHandle("query") /\ Len(op.calls) = 1)
    => /\ coll.distance_metric = "cosine"
             => \E i \in 1..Len(op.calls[1].query) :
                   SubSeq(op.calls[1].query, i, i + Len(ScoreField(op.args.vector)) - 1)
                   = ScoreField(op.args.vector)
       /\ \A m \in Metrics \ {coll.distance_metric} :
             QueryText([coll EXCEPT !.distance_metric = m], op.args.vector,
                       op.args.top_k, op.args.include_metadata,
                       op.args.include_values, op.args.filter)
             # op.calls[1].query
RowIds(rows) == {rows[i][1].v : i \in 1..Len(rows)}

\* C13: the vectors mapping of fetch has exactly the ids of the rows the
\* executor returned as its keys, each with the entry of that id; a requested
\* id without a row is not a key.
FetchKeysAreReturnedIds ==
    (OnVectorHandle("fetch") /\ ~op.raised)
    => /\ DOMAIN op.value.vectors = RowIds(op.args.rows)
       /\ \A k \in DOMAIN op.value.vectors : op.value.vectors[k].id = k
       /\ \A i \in 1..Len(op.args.ids) :
             op.args.ids[i] \notin RowIds(op.args.rows)
             => op.args.ids[i] \notin DOMAIN op.value.vectors

\* two ids were requested, rows came back for "a" and for an id nobody asked
\* for, and the requested id without a row is missing from the mapping
FetchOmitsMissingId ==
    /\ OnVectorHandle("fetch")
    /\ ~op.raised
    /\ op.args.ids = << <<"a">>, <<Quote>> >>
    /\ Len(op.args.rows) = 2
    /\ <<"a">> \in DOMAIN op.value.vectors
    /\ <<Quote>> \notin DOMAIN op.value.vectors
\* the last row of a result set that carries the id
LastRowOf(rows, id) ==
    rows[CHOOSE i \in 1..Len(rows) :
            /\ rows[i][1].v = id
            /\ \A j \in (i + 1)..Len(rows) : rows[j][1].v # id]

\* C14: get(ids) of the basic client returns one slot per requested id, in
\* the order of ids: the vector and metadata of the row the executor returned
\* for that id, or None when it returned no such row; a repeated id gets the
\* same record in each of its slots.
GetPadsMissingIds ==
    (op.name = "get" /\ op.handle = "basic" /\ ~op.raised)
    => /\ Len(op.value.records) = Len(op.args.ids)
       /\ \A i \in 1..Len(op.args.ids) :
             IF op.args.ids[i] \in RowIds(op.args.rows)
             THEN /\ ~op.value.records[i].null
                  /\ op.value.records[i].v.vector
                        = LastRowOf(op.args.rows, op.args.ids[i])[2]
                  /\ op.value.records[i].v.metadata
                        = LastRowOf(op.args.rows, op.args.ids[i])[3]
             ELSE op.value.records[i] = Null

\* the first requested id had no row and the second had one
GetReturnsNoneThenRecord ==
    /\ op.name = "get"
    /\ op.handle = "basic"
    /\ ~op.raised
    /\ op.args.ids = << <<Quote>>, <<"a">> >>
    /\ Len(op.args.rows) >= 1
    /\ op.value.records[1] = Null
    /\ ~op.value.records[2].null
\* what the formatter makes of an optional column: its value, or the empty
\* dict/list for NULL
ColumnValue(cell) == IF cell.null THEN <<>> ELSE cell.v

\* C15: query returns one match per executor row, in row order: id from
\* column 0, score from column 1, metadata from the next column exactly when
\* include_metadata is set, values from the column after that (column 2
\* without metadata) exactly when include_values is set; read_units is the
\* number of rows.
QueryMatchesFollowRows ==
    (OnVectorHandle("query") /\ ~op.raised)
    => LET rows == op.args.rows
           md == op.args.include_metadata
           vals == op.args.include_values
       IN /\ Len(op.value.matches) = Len(rows)
          /\ op.value.read_units = Len(rows)
          /\ \A i \in 1..Len(rows) :
                LET m == op.value.matches[i] IN
                /\ m.id = rows[i][1].v
                /\ m.score = rows[i][2].v
                /\ m.rest.has_metadata = md
                /\ md => m.rest.metadata = ColumnValue(rows[i][3])
                /\ m.rest.has_values = vals
                /\ vals => m.rest.values
                             = ColumnValue(rows[i][IF md THEN 4 ELSE 3])

\* a query for values without metadata got two rows and read the values of
\* the first from column 2
QueryValuesWithoutMetadata ==
    /\ OnVectorHandle("query")
    /\ ~op.raised
    /\ ~op.args.include_metadata
    /\ op.args.include_values
    /\ Len(op.args.rows) = 2
    /\ op.value.matches[1].rest.has_values
    /\ op.value.matches[1].rest.values = op.args.rows[1][3].v
    /\ op.value.matches[2].id = RowId(2)

\* C16: an update given neither values nor metadata, or given values whose
\* length differs from the collection's dimension, fails with a validation
\* error and sends nothing to the executor, on either collection handle.
UpdateValidatesBeforeSending ==
    (/\ op.name = "update"
     /\ \/ ~op.args.values.given /\ ~op.args.metadata.given
        \/ op.args.values.given /\ Len(op.args.values.v) # coll.dimension)
    => /\ op.raised
       /\ op.error.type = "ValueError"
       /\ op.calls = <<>>

\* the position of the first chunk c of a text, 0 when it has none
ChunkIndex(text, c) ==
    IF \E i \in 1..Len(text) : text[i] = c
    THEN CHOOSE i \in 1..Len(text) :
            text[i] = c /\ \A j \in 1..(i - 1) : text[j] # c
    ELSE 0

\* the pieces of a text between the occurrences of a separator chunk
RECURSIVE SplitOn(_, _)
SplitOn(text, sep) ==
    LET k == ChunkIndex(text, sep) IN
    IF k = 0 THEN <<text>>
    ELSE <<SubSeq(text, 1, k - 1)>> \o SplitOn(SubSeq(text, k + 1, Len(text)), sep)

StartsWith(text, prefix) ==
    Len(text) >= Len(prefix) /\ SubSeq(text, 1, Len(prefix)) = prefix

\* the fragments of the WHERE clause of a SELECT statement: what stands
\* between WHERE and ORDER BY, split at AND; none without a WHERE clause
WhereFragments(text) ==
    LET w == ChunkIndex(text, " WHERE ")
        o == ChunkIndex(text, " ORDER BY vector <=> ")
    IN IF w = 0 THEN <<>> ELSE SplitOn(SubSeq(text, w + 1, o - 1), " AND ")

\* C17: the WHERE clause of the statement a query sends has exactly one
\* fragment per field of the filter mapping, joined with AND, the i-th
\* fragment addressing the i-th field in insertion order (and there is no
\* WHERE clause for an empty filter).
WhereHasOneFragmentPerField ==
    (OnVectorHandle("query") /\ Len(op.calls) = 1)
    => LET frs == WhereFragments(op.calls[1].query)
           f == op.args.filter
       IN /\ Len(frs) = Len(f)
          /\ \A i \in 1..Len(f) :
                \/ StartsWith(frs[i], <<"metadata->>">> \o Quoted(f[i].key))
                \/ StartsWith(frs[i], <<"(metadata->>">> \o Quoted(f[i].key))

\* the components of an array literal, read from the chunk after its "["
\* up to its "]"
RECURSIVE Components(_, _)
Components(text, i) ==
    IF i > Len(text) \/ text[i] = "]" THEN <<>>
    ELSE IF text[i] = ", " THEN Components(text, i + 1)
    ELSE <<text[i]>> \o Components(text, i + 1)

\* the chunk `marker` of the text is followed by an array literal with
\* exactly these components
OperandIs(text, marker, components) ==
    LET k == ChunkIndex(text, marker) IN
    /\ k # 0
    /\ k + 2 <= Len(text)
    /\ text[k + 1] = "ARRAY"
    /\ text[k + 2] = "["
    /\ Components(text, k + 3) = components

\* C18: for a query vector of the collection's dimension, the array literal
\* that is the distance operand of the emitted statement, in the score
\* expression and in the ORDER BY expression, has exactly dimension
\* components, the input's components in their order.
QueryOperandIsTheVector ==
    (OnVectorHandle("query") /\ Len(op.args.vector) = coll.dimension)
    => /\ Len(op.calls) = 1
       /\ LET expected == [i \in 1..coll.dimension |-> ToString(op.args.vector[i])]
              text == op.calls[1].query
          IN /\ OperandIs(text, "1 - (vector <=> ", expected)
             /\ OperandIs(text, " ORDER BY vector <=> ", expected)

\* a query with a vector of two different components was sent for a
\* collection of dimension 2
QueryOfTwoComponentsSent ==
    /\ OnVectorHandle("query")
    /\ coll.dimension = 2
    /\ op.args.vector = <<1, 2>>
    /\ Len(op.calls) = 1
    /\ ~op.raised

\* C19: a describe that follows a describe with nothing sent for the table
\* in between returns the total_vector_count the backend counted then, and
\* a describe sends one SELECT COUNT(*) and nothing else, leaving the handle
\* and the tables as they were.
DescribeTwiceSameCount ==
    /\ [](OnVectorHandle("describe")
            => /\ op.calls = <<Payload(<<"SELECT COUNT(*) FROM ", coll.name>>,
                                       NoParameters)>>
               /\ (~op.raised /\ op.args.counted # NotCounted)
                     => op.value.total_vector_count = op.args.counted)
    /\ [][op'.name = "describe"
            => UNCHANGED <<coll, schemaSent, tables>>]_vars

\* a second describe in a row returned the two rows the first one counted
SecondDescribeCountsTwo ==
    /\ OnVectorHandle("describe")
    /\ ~op.raised
    /\ op.args.counted = 2
    /\ op.value.total_vector_count = 2

\* C20: list(limit, offset) returns one {id} entry per executor row, in row
\* order; pagination.total is the number of rows of that page, and limit and
\* offset come back as they were passed.
ListReturnsThePage ==
    (OnVectorHandle("list") /\ ~op.raised)
    => /\ op.value.vectors
            = [i \in 1..Len(op.args.rows) |-> [id |-> op.args.rows[i][1].v]]
       /\ op.value.pagination.total = Len(op.args.rows)
       /\ op.value.pagination.limit = op.args.limit
       /\ op.value.pagination.offset = op.args.offset

\* list(100, 1) got a page of two rows and reports a total of two
ListPageOfTwoAfterOffset ==
    /\ OnVectorHandle("list")
    /\ ~op.raised
    /\ op.args.limit = 100
    /\ op.args.offset = 1
    /\ Len(op.args.rows) = 2
    /\ op.value.pagination.total = 2
    /\ op.value.vectors = <<[id |-> RowId(1)], [id |-> RowId(2)]>>

\* the index types create_index supports, in any letter case
SupportedIndexTypes == {"ivf", "IVF", "Ivf", "hnsw", "HNSW", "Hnsw"}

\* C21: create_index with an index type other than ivf or hnsw, compared
\* without regard to case, fails with the unsupported-index error and sends
\* nothing to the executor; with ivf or hnsw in any case it sends its one
\* statement.
CreateIndexRejectsUnknownType ==
    (op.name = "create_index")
    => IF op.args.index_type \in SupportedIndexTypes
       THEN ~op.raised /\ Len(op.calls) = 1
       ELSE /\ op.raised
            /\ op.error.type = "ValueError"
            /\ op.error.message = <<"Unsupported index type: ", op.args.index_type>>
            /\ op.calls = <<>>

\* create_index was asked for a flat index and refused it
FlatIndexRefused ==
    /\ op.name = "create_index"
    /\ op.args.index_type = "flat"
    /\ op.raised
    /\ op.calls = <<>>

\* the operations of a collection handle
HandleOps == VectorOps \cup {"create_index"}

\* C22: no operation on a collection handle (upsert, query, fetch, update,
\* delete, describe, list, create_index), whether it returns or raises,
\* changes the handle's name, dimension, distance_metric or metadata_config.
HandleIsReadOnly ==
    [][op'.name \in HandleOps
        => /\ coll'.name = coll.name
           /\ coll'.dimension = coll.dimension
           /\ coll'.distance_metric = coll.distance_metric
           /\ coll'.metadata_config = coll.metadata_config]_vars

\* an update on a euclidean collection of dimension 2 failed at the
\* executor, and the handle is the one that was constructed
FailedUpdateLeftHandle ==
    /\ OnVectorHandle("update")
    /\ op.raised
    /\ op.fault.at = 1
    /\ coll = NewHandle("docs", 2, "euclidean", {})

\* C23: a query whose filter is empty or absent sends a statement without a
\* WHERE clause: ORDER BY follows the table name at once, and every row the
\* executor returns becomes a match.
EmptyFilterHasNoWhere ==
    (OnVectorHandle("query") /\ Len(op.args.filter) = 0 /\ Len(op.calls) = 1)
    => LET text == op.calls[1].query
           from == ChunkIndex(text, " FROM ")
       IN /\ " WHERE " \notin Range(text)
          /\ from # 0
          /\ text[from + 1] = coll.name
          /\ text[from + 2] = " ORDER BY vector <=> "
          /\ ~op.raised => Len(op.value.matches) = Len(op.args.rows)

\* a query without a filter returned both rows of the executor
UnfilteredQueryReturnsAllRows ==
    /\ OnVectorHandle("query")
    /\ op.args.filter = <<>>
    /\ ~op.raised
    /\ Len(op.args.rows) = 2
    /\ Len(op.value.matches) = 2
    /\ " WHERE " \notin Range(op.calls[1].query)

\* what a schema statement creates, read from its text
CreatesTable(stmt) == stmt.query[1] = "CREATE TABLE IF NOT EXISTS "
CreatesIndex(stmt, suffix) ==
    /\ stmt.query[1] = "CREATE INDEX IF NOT EXISTS idx_"
    /\ stmt.query[3] = suffix

\* C24: construction sends CREATE TABLE first, then the vector index
\* statement, then the metadata index statement; a statement that fails is
\* the last one sent, and construction returns a handle for the requested
\* collection without raising.
ConstructSendsSchemaInOrder ==
    (op.name = "__init__")
    => /\ Len(op.calls) = (IF op.fault.at = 0 THEN 3 ELSE op.fault.at)
       /\ Len(op.calls) >= 1 => CreatesTable(op.calls[1])
       /\ Len(op.calls) >= 2 => CreatesIndex(op.calls[2], "_vector ON ")
       /\ Len(op.calls) >= 3 => CreatesIndex(op.calls[3], "_metadata ON ")
       /\ ~op.raised
       /\ coll.kind = "vector"
       /\ coll.name = op.args.name
       /\ coll.dimension = op.args.dimension

\* the vector index statement failed: the metadata index statement was not
\* sent and the constructor returned its handle
ConstructStoppedAtVectorIndex ==
    /\ op.name = "__init__"
    /\ op.fault = [at |-> 2, err |-> "connection refused"]
    /\ Len(op.calls) = 2
    /\ ~op.raised
    /\ coll.kind = "vector"

\* the caller passed a list shorter than vectors for this argument
ShorterThanVectors(arg) == arg.given /\ Len(arg.v) < Len(op.args.vectors)

\* C25: upsert does not compare the lengths of ids and metadata with
\* vectors: with ids or metadata shorter than vectors it raises nothing of
\* its own, returns upserted_count = len(vectors) when the executor accepts
\* every batch, and the batches it sent then hold fewer ids (or metadata)
\* than vectors.
UpsertAcceptsShortLists ==
    (/\ OnVectorHandle("upsert")
     /\ ~HasBadVector(op.args.vectors)
     /\ ShorterThanVectors(op.args.ids) \/ ShorterThanVectors(op.args.metadata))
    => /\ op.raised => (op.fault.at >= 1 /\ op.error.type = "AuroraDBError")
       /\ ~op.raised =>
             /\ op.value.upserted_count = Len(op.args.vectors)
             /\ ShorterThanVectors(op.args.ids) =>
                   /\ Len(ConcatBatches(op.calls, "ids")) = Len(op.args.ids.v)
                   /\ \E k \in 1..Len(op.calls) :
                         Len(op.calls[k].parameters.ids)
                         < Len(op.calls[k].parameters.vectors)
             /\ ShorterThanVectors(op.args.metadata) =>
                   /\ Len(ConcatBatches(op.calls, "metadata"))
                      = Len(op.args.metadata.v)
                   /\ \E k \in 1..Len(op.calls) :
                         Len(op.calls[k].parameters.metadata)
                         < Len(op.calls[k].parameters.vectors)

\* three vectors with two ids in batches of two: the second batch went out
\* with a vector and no id, and upsert reported three records
UpsertThreeVectorsTwoIds ==
    /\ OnVectorHandle("upsert")
    /\ Len(op.args.vectors) = 3
    /\ op.args.ids.given
    /\ Len(op.args.ids.v) = 2
    /\ op.args.batch_size = 2
    /\ ~op.raised
    /\ op.value.upserted_count = 3
    /\ Len(op.calls) = 2
    /\ op.calls[2].parameters.ids = <<>>
    /\ Len(op.calls[2].parameters.vectors) = 1

\* C26: whenever the executor accepts the statement, delete(ids) reports
\* deleted_count = len(ids) and update reports updated_count = 1, however
\* many rows the statement found in the store (none included) and whether or
\* not ids are repeated.
CountsIgnoreTheStore ==
    /\ (OnVectorHandle("delete") /\ op.fault.at = 0)
          => /\ ~op.raised
             /\ op.value.deleted_count = Len(op.args.ids)
    /\ (OnVectorHandle("update") /\ Len(op.calls) = 1 /\ op.fault.at = 0)
          => /\ ~op.raised
             /\ op.value.updated_count = 1

\* a delete of the same id twice that found nothing to delete reported two
DeleteOfNothingReportsTwo ==
    /\ OnVectorHandle("delete")
    /\ op.args.ids = << <<"a">>, <<"a">> >>
    /\ op.args.affected = 0
    /\ ~op.raised
    /\ op.value.deleted_count = 2

\* the methods of AuroraClient that refuse a closed client
GuardedClientMethods ==
    {"query", "execute", "vector_search", "analytics_query", "transaction",
     "batch_execute", "health_check"}

\* C27: once close() has completed the client stays closed; every later
\* query, execute, vector_search, analytics_query, transaction,
\* batch_execute and health_check raises "Client is closed" without
\* calling the native client; and whatever close() calls are made, the
\* native close is invoked at most once.
ClosedOnceAndForAll ==
    /\ [][closed => closed']_vars
    /\ []((dcall.name \in GuardedClientMethods /\ dcall.before.closed)
            => /\ dcall.raised
               /\ dcall.error = <<"Client is closed">>
               /\ dcall.method = "")
    /\ [](native.close <= 1)

\* C28: after commit() succeeded, every later query, execute and commit of
\* the transaction raises "Transaction already committed" with no native
\* call; a commit whose native commit fails leaves the transaction as it
\* was, not committed and not rolled back, and _check_active still passes.
CommittedTransactionRefuses ==
    /\ []((/\ dcall.name \in {"txn.query", "txn.execute", "txn.commit"}
           /\ dcall.before.txn.committed)
            => /\ dcall.raised
               /\ dcall.error = <<"Transaction already committed">>
               /\ dcall.method = "")
    /\ [][(dcall'.name = "txn.commit" /\ dcall'.method = "commit" /\ dcall'.raised)
            => /\ txn' = txn
               /\ ~txn'.committed
               /\ ~txn'.rolled_back
               /\ CheckActive(txn') = ""]_vars

\* the native commit failed once and succeeded the second time, and the
\* commit after that was refused
CommitRefusedAfterRetriedCommit ==
    /\ native.commit = 2
    /\ txn.committed
    /\ dcall.name = "txn.commit"
    /\ dcall.before.txn.committed
    /\ dcall.error = <<"Transaction already committed">>

\* C29: the native rollback is never invoked after a successful commit,
\* it is invoked at most once over all the rollback() calls of a
\* transaction, and once rollback() has returned, query, execute and commit
\* raise "Transaction already rolled back".
RollbackOnceAndForAll ==
    /\ []((dcall.name = "txn.rollback" /\ dcall.before.txn.committed)
            => dcall.method = "")
    /\ [](native.rollback <= 1)
    /\ []((/\ dcall.name \in {"txn.query", "txn.execute", "txn.commit"}
           /\ dcall.before.txn.rolled_back)
            => /\ dcall.raised
               /\ dcall.error = <<"Transaction already rolled back">>
               /\ dcall.method = "")

\* C30: the native init is called at most once between shutdowns (init()
\* on an initialised runtime does nothing), the native shutdown at most once
\* per init (shutdown() on an uninitialised runtime does nothing), a WebApp
\* is constructed only while the runtime is initialised, and after run()
\* returned or raised the runtime is shut down.
ExplicitLifecycle ==
    /\ [](lib.since_shutdown <= 1)
    /\ [][(ccall'.name = "init" /\ ccall'.before # NoRuntime)
            => (lib' = lib /\ cyclone_handle' = cyclone_handle)]_vars
    /\ [](lib.shutdowns_since_init <= 1)
    /\ [][(ccall'.name = "shutdown" /\ ccall'.before = NoRuntime)
            => (lib' = lib /\ cyclone_handle' = cyclone_handle)]_vars
    /\ [][Len(apps') > Len(apps) => cyclone_handle # NoRuntime]_vars
    /\ []((ccall.name = "WebApp" /\ ccall.before = NoRuntime)
            => /\ ccall.raised
               /\ ccall.error = <<"Cyclone not initialized. Call cyclone.init() first">>)
    /\ [](ccall.name = "run" => cyclone_handle = NoRuntime)

\* C30 (amended): the native init is called only while no handle is held,
\* so between shutdowns at most one native init returns a handle (an init()
\* after a native init that returned NULL calls it again); the rest as
\* stated.
LifecycleOfTheHandle ==
    /\ [][lib'.init # lib.init => cyclone_handle = NoRuntime]_vars
    /\ [](lib.ok_since_shutdown <= 1)
    /\ [](cyclone_handle # NoRuntime <=> lib.ok_since_shutdown = 1)
    /\ [][(ccall'.name = "init" /\ ccall'.before # NoRuntime)
            => (lib' = lib /\ cyclone_handle' = cyclone_handle)]_vars
    /\ [](lib.shutdowns_since_init <= 1)
    /\ [][(ccall'.name = "shutdown" /\ ccall'.before = NoRuntime)
            => (lib' = lib /\ cyclone_handle' = cyclone_handle)]_vars
    /\ [][Len(apps') > Len(apps) => cyclone_handle # NoRuntime]_vars
    /\ []((ccall.name = "WebApp" /\ ccall.before = NoRuntime)
            => /\ ccall.raised
               /\ ccall.error = <<"Cyclone not initialized. Call cyclone.init() first">>)
    /\ [](ccall.name = "run" => cyclone_handle = NoRuntime)

\* the native init returned NULL, init() was called again and got a handle,
\* and a WebApp was made on that runtime
WebAppOnRetriedInit ==
    /\ lib.since_shutdown = 2
    /\ cyclone_handle # NoRuntime
    /\ Len(apps) >= 1
    /\ apps[Len(apps)].runtime = cyclone_handle
    /\ ccall.name = "WebApp"
====
